---- MODULE Spec2Model ----
(***************************************************************************)
(* Statistics aggregation and consistency engine of myfinance:            *)
(*   backend/app/services/statistics_service.py  (StatisticsService)      *)
(*   backend/app/routers/transactions.py         (ledger mutations)       *)
(*   backend/app/routers/statistics.py           (/statistics/initialize) *)
(*   backend/app/database.py                     (SQLite, autoflush=False)*)
(*                                                                         *)
(* Amounts are integers (currency units); a float quotient a / b * 100 is *)
(* kept as the integer (a * 100) \div b and a / b as a \div b.            *)
(* A date is the tuple <<year, month, day>>; NoDate is the NULL date of    *)
(* ALL_TIME rows; NULL is the None of a nullable enum column.              *)
(***************************************************************************)
EXTENDS Integers, Sequences, FiniteSets, Bags, TLC

NULL == "NULL"
NoDate == <<0, 0, 0>>

\* models/transaction.py: TransactionType
INCOME == "Income"
EXPENSE == "Expense"
TRANSFER == "Transfer"
TransactionType == {INCOME, EXPENSE, TRANSFER}

\* models/transaction.py: ExpenseCategory, in definition (iteration) order
ExpenseCategory ==
  << "Housing", "Utilities", "Groceries", "Transportation", "Insurance",
     "Health", "Loan Repayment", "Credit Payment", "Debt", "Financial Fees",
     "Investments", "Savings", "Eating Out", "Personal", "Shopping", "Gifts",
     "Donations", "Education", "Travel", "Entertainment",
     "Internal Transfer", "Others" >>

\* models/transaction.py: IncomeCategory, in definition (iteration) order
IncomeCategory ==
  << "Salary", "Investment Income", "Business Income", "Rental Income",
     "Freelance Income", "Pension", "Benefits", "Gifts Received", "Refunds",
     "Loan Disbursement", "Internal Transfer", "Other Income" >>

\* models/statistics.py: StatisticsPeriod
MONTHLY == "monthly"
YEARLY == "yearly"
ALL_TIME == "all_time"
StatisticsPeriod == {MONTHLY, YEARLY, ALL_TIME}

-----------------------------------------------------------------------------
(* Calendar helpers: datetime.date and calendar.monthrange                 *)

IsLeap(y) == (y % 4 = 0 /\ y % 100 # 0) \/ y % 400 = 0

\* variant: every fourth year is a leap year (the Julian rule)
monthrange_julian(y, m) ==
  IF m = 2 THEN (IF y % 4 = 0 THEN 29 ELSE 28)
  ELSE IF m \in {4, 6, 9, 11} THEN 30 ELSE 31

\* calendar.monthrange(year, month)[1]
monthrange(y, m) ==
  IF m = 2 THEN (IF IsLeap(y) THEN 29 ELSE 28)
  ELSE IF m \in {4, 6, 9, 11} THEN 30 ELSE 31

\* date <= date
DateLE(a, b) ==
  \/ a[1] < b[1]
  \/ a[1] = b[1] /\ a[2] < b[2]
  \/ a[1] = b[1] /\ a[2] = b[2] /\ a[3] <= b[3]

\* transaction_date.replace(day=calendar.monthrange(year, month)[1])
month_end(d) == <<d[1], d[2], monthrange(d[1], d[2])>>

\* date(transaction_date.year, 12, 31)
year_end(d) == <<d[1], 12, 31>>

abs(x) == IF x < 0 THEN -x ELSE x

RECURSIVE SumAmount(_, _)
\* func.sum(Transaction.amount) over the rows ids of ledger l (0 when empty)
SumAmount(l, ids) ==
  IF ids = {} THEN 0
  ELSE LET i == CHOOSE x \in ids : TRUE
       IN l[i].amount + SumAmount(l, ids \ {i})

RECURSIVE SumAbs(_, _)
\* func.sum(func.abs(Transaction.amount)) over the rows ids of ledger l
SumAbs(l, ids) ==
  IF ids = {} THEN 0
  ELSE LET i == CHOOSE x \in ids : TRUE
       IN abs(l[i].amount) + SumAbs(l, ids \ {i})

-----------------------------------------------------------------------------
(* Aggregation engine.  l is the transactions table as seen by the query:  *)
(* a function from primary key to row.                                     *)

\* period_query filter (extract year / month)
InPeriod(t, period, target_date) ==
  CASE period = MONTHLY -> t.transaction_date[1] = target_date[1]
                           /\ t.transaction_date[2] = target_date[2]
    [] period = YEARLY  -> t.transaction_date[1] = target_date[1]
    [] OTHER            -> TRUE

\* cumulative_query filter
InCumulative(t, period, target_date) ==
  CASE period = MONTHLY -> DateLE(t.transaction_date, month_end(target_date))
    [] period = YEARLY  -> DateLE(t.transaction_date, year_end(target_date))
    [] OTHER            -> TRUE

\* yearly_query filter of calculate_statistics: only MONTHLY restricts it
InYearlyOverall(t, period, target_date) ==
  CASE period = MONTHLY -> t.transaction_date[1] = target_date[1]
                           /\ DateLE(t.transaction_date, month_end(target_date))
    [] OTHER            -> TRUE

Ratio100(a, b) == (a * 100) \div b

\* variant: the savings rate of a period without income is taken against
\* one currency unit instead of being reported as 0
calculate_statistics_unguarded(l, period, target_date) ==
  LET P  == {i \in DOMAIN l : InPeriod(l[i], period, target_date)}
      C  == {i \in DOMAIN l : InCumulative(l[i], period, target_date)}
      Y  == {i \in DOMAIN l : InYearlyOverall(l[i], period, target_date)}
      Inc(S) == {i \in S : l[i].transaction_type = INCOME}
      Exp(S) == {i \in S : l[i].transaction_type # INCOME}
      period_income   == SumAmount(l, Inc(P))
      period_expenses == SumAbs(l, Exp(P))
      income_count    == Cardinality(Inc(P))
      expense_count   == Cardinality(Exp(P))
      total_income    == SumAmount(l, Inc(C))
      total_expenses  == SumAbs(l, Exp(C))
      period_net_savings == period_income - period_expenses
  IN [ period_income      |-> period_income,
       period_expenses    |-> period_expenses,
       income_count       |-> income_count,
       expense_count      |-> expense_count,
       total_income       |-> total_income,
       total_expenses     |-> total_expenses,
       yearly_income      |-> SumAmount(l, Inc(Y)),
       yearly_expenses    |-> SumAbs(l, Exp(Y)),
       period_net_savings |-> period_net_savings,
       savings_rate       |-> Ratio100(period_net_savings,
                                       IF period_income > 0
                                       THEN period_income ELSE 1),
       total_net_savings  |-> total_income - total_expenses,
       average_income     |-> IF income_count > 0
                              THEN period_income \div income_count ELSE 0,
       average_expense    |-> IF expense_count > 0
                              THEN period_expenses \div expense_count ELSE 0 ]

calculate_statistics(l, period, target_date) ==
  LET P  == {i \in DOMAIN l : InPeriod(l[i], period, target_date)}
      C  == {i \in DOMAIN l : InCumulative(l[i], period, target_date)}
      Y  == {i \in DOMAIN l : InYearlyOverall(l[i], period, target_date)}
      Inc(S) == {i \in S : l[i].transaction_type = INCOME}
      Exp(S) == {i \in S : l[i].transaction_type # INCOME}
      period_income   == SumAmount(l, Inc(P))
      period_expenses == SumAbs(l, Exp(P))
      income_count    == Cardinality(Inc(P))
      expense_count   == Cardinality(Exp(P))
      total_income    == SumAmount(l, Inc(C))
      total_expenses  == SumAbs(l, Exp(C))
      period_net_savings == period_income - period_expenses
  IN [ period_income      |-> period_income,
       period_expenses    |-> period_expenses,
       income_count       |-> income_count,
       expense_count      |-> expense_count,
       total_income       |-> total_income,
       total_expenses     |-> total_expenses,
       yearly_income      |-> SumAmount(l, Inc(Y)),
       yearly_expenses    |-> SumAbs(l, Exp(Y)),
       period_net_savings |-> period_net_savings,
       savings_rate       |-> IF period_income > 0
                              THEN Ratio100(period_net_savings, period_income)
                              ELSE 0,
       total_net_savings  |-> total_income - total_expenses,
       average_income     |-> IF income_count > 0
                              THEN period_income \div income_count ELSE 0,
       average_expense    |-> IF expense_count > 0
                              THEN period_expenses \div expense_count ELSE 0 ]

\* yearly_filters of calculate_category_statistics: only MONTHLY restricts it
InYearlyCategory(t, period, target_date) ==
  CASE period = MONTHLY -> t.transaction_date[1] = target_date[1]
                           /\ DateLE(t.transaction_date, month_end(target_date))
    [] OTHER            -> TRUE

\* one snapshot of the "for cat in ExpenseCategory" loop
expense_snapshot(l, period, target_date, cat) ==
  LET Of(S) == {i \in S : l[i].expense_category = cat}
      P == Of({i \in DOMAIN l : InPeriod(l[i], period, target_date)})
      C == Of({i \in DOMAIN l : InCumulative(l[i], period, target_date)})
      Y == Of({i \in DOMAIN l : InYearlyCategory(l[i], period, target_date)})
      period_expense_total ==
        SumAbs(l, {i \in DOMAIN l : l[i].transaction_type = EXPENSE
                                    /\ InPeriod(l[i], period, target_date)})
      period_amount == SumAbs(l, P)
      period_count  == Cardinality(P)
  IN [ category_name              |-> cat,
       transaction_type           |-> EXPENSE,
       period_amount              |-> period_amount,
       period_transaction_count   |-> period_count,
       period_percentage          |-> IF period_expense_total > 0
                                      THEN Ratio100(period_amount, period_expense_total)
                                      ELSE 0,
       total_amount               |-> SumAbs(l, C),
       total_transaction_count    |-> Cardinality(C),
       average_transaction_amount |-> IF period_count > 0
                                      THEN period_amount \div period_count ELSE 0,
       yearly_amount              |-> SumAbs(l, Y),
       yearly_transaction_count   |-> Cardinality(Y) ]

\* one snapshot of the "for cat in IncomeCategory" loop
income_snapshot(l, period, target_date, cat) ==
  LET Of(S) == {i \in S : l[i].income_category = cat}
      P == Of({i \in DOMAIN l : InPeriod(l[i], period, target_date)})
      C == Of({i \in DOMAIN l : InCumulative(l[i], period, target_date)})
      Y == Of({i \in DOMAIN l : InYearlyCategory(l[i], period, target_date)})
      period_income_total ==
        SumAmount(l, {i \in DOMAIN l : l[i].transaction_type = INCOME
                                       /\ InPeriod(l[i], period, target_date)})
      period_amount == SumAmount(l, P)
      period_count  == Cardinality(P)
  IN [ category_name              |-> cat,
       transaction_type           |-> INCOME,
       period_amount              |-> period_amount,
       period_transaction_count   |-> period_count,
       period_percentage          |-> IF period_income_total > 0
                                      THEN Ratio100(period_amount, period_income_total)
                                      ELSE 0,
       total_amount               |-> SumAmount(l, C),
       total_transaction_count    |-> Cardinality(C),
       average_transaction_amount |-> IF period_count > 0
                                      THEN period_amount \div period_count ELSE 0,
       yearly_amount              |-> SumAmount(l, Y),
       yearly_transaction_count   |-> Cardinality(Y) ]

\* variant: a category without a transaction in the period gets no snapshot
calculate_category_statistics_used(l, period, target_date) ==
  SelectSeq(
    [k \in 1..Len(ExpenseCategory) |->
        expense_snapshot(l, period, target_date, ExpenseCategory[k])]
    \o
    [k \in 1..Len(IncomeCategory) |->
        income_snapshot(l, period, target_date, IncomeCategory[k])],
    LAMBDA c : c.period_transaction_count > 0)

\* expense_categories + income_categories
calculate_category_statistics(l, period, target_date) ==
  [k \in 1..Len(ExpenseCategory) |->
      expense_snapshot(l, period, target_date, ExpenseCategory[k])]
  \o
  [k \in 1..Len(IncomeCategory) |->
      income_snapshot(l, period, target_date, IncomeCategory[k])]

-----------------------------------------------------------------------------
(* Bounds and inputs                                                       *)

\* largest number of rows of the transactions table
MaxTx == 2
\* largest number of requests served in one behaviour
MaxRequests == 2

\* request handlers in flight: worker threads and the event loop
Procs == {1, 2}

Tx(d, a, ty, ec, ic) ==
  [ transaction_date |-> d, amount |-> a, transaction_type |-> ty,
    expense_category |-> ec, income_category |-> ic ]

\* bodies of POST /transactions/restore (schemas.TransactionRestore): the
\* validators keep a category only when it matches transaction_type
TxInputs ==
  { Tx(<<2023, 3, 5>>, 1000, INCOME, NULL, "Salary"),
    Tx(<<2023, 3, 10>>, -50, EXPENSE, "Groceries", NULL),
    Tx(<<2023, 1, 15>>, -30, EXPENSE, NULL, NULL),
    Tx(<<2024, 2, 29>>, -40, TRANSFER, NULL, NULL) }

\* rows CSVParser yields: the type follows the sign of the amount, the
\* category is the suggestion (or none)
UploadInputs == {t \in TxInputs : t.transaction_type # TRANSFER}

\* (category, transaction_type) query parameters of PATCH /{id}/category
CategoryEdits ==
  { <<"Transportation", EXPENSE>>, <<"Salary", INCOME>> }

-----------------------------------------------------------------------------
(* Tables                                                                  *)

\* column defaults of FinancialStatistics (default=0)
ZeroData ==
  [ period_income |-> 0, period_expenses |-> 0, income_count |-> 0,
    expense_count |-> 0, total_income |-> 0, total_expenses |-> 0,
    yearly_income |-> 0, yearly_expenses |-> 0, period_net_savings |-> 0,
    savings_rate |-> 0, total_net_savings |-> 0, average_income |-> 0,
    average_expense |-> 0 ]

DataKeys == DOMAIN ZeroData

\* a FinancialStatistics row: key columns and metrics
FinRow(period, date, data) == [period |-> period, date |-> date] @@ data

\* the metric columns of a FinancialStatistics row
DataOf(row) == [k \in DataKeys |-> row[k]]

\* a CategoryStatistics row: CategoryStatistics(period=, date=, **cat_data);
\* a column the snapshot does not set (expense_type) stays NULL
CatRow(period, date, cat_data) ==
  cat_data @@ [period |-> period, date |-> date, expense_type |-> NULL]

\* SQLite rowid of a table without AUTOINCREMENT: max(rowid) + 1
NextId(table) ==
  IF DOMAIN table = {} THEN 1
  ELSE (CHOOSE i \in DOMAIN table : \A j \in DOMAIN table : j <= i) + 1

Restrict(f, S) == [x \in S |-> f[x]]

EmptyTable == Restrict(<<>>, {})

EmptyDb == [ledger |-> EmptyTable, fin |-> EmptyTable, cat |-> EmptyBag]

\* db.query(CategoryStatistics).filter(period ==, date ==).delete()
DeleteCat(cat, period, date) ==
  LET keep == {r \in DOMAIN cat : ~(r.period = period /\ r.date = date)}
  IN Restrict(cat, keep)

\* variant: the ALL_TIME category rows are not cleared before the new ones
\* are added
DeleteCatAllTimeKept(cat) == cat

\* db.query(CategoryStatistics).filter(period == ALL_TIME).delete()
DeleteCatAllTime(cat) ==
  Restrict(cat, {r \in DOMAIN cat : r.period # ALL_TIME})

\* for cat_data in categories: if period_transaction_count > 0: db.add(...)
\* (the snapshots of one call differ in category or type, so the added rows
\* are pairwise distinct)
AddCats(cat, period, date, categories) ==
  LET kept == {k \in 1..Len(categories) :
                 categories[k].period_transaction_count > 0}
  IN cat (+) SetToBag({CatRow(period, date, categories[k]) : k \in kept})

\* FinancialStatistics rows without their primary key, as a bag
FinBag(fin) ==
  LET rows == {fin[i] : i \in DOMAIN fin}
  IN [r \in rows |-> Cardinality({i \in DOMAIN fin : fin[i] = r})]

\* all bucket rows of a database state, primary keys left out
Buckets(d) == [fin |-> FinBag(d.fin), cat |-> d.cat]

-----------------------------------------------------------------------------
(* Bulk rebuild: the rows initialize_statistics and                        *)
(* initialize_category_statistics add for a ledger l                       *)

\* SELECT DISTINCT year, month: the month-end date of every ledger month
months_of(l) == {month_end(l[i].transaction_date) : i \in DOMAIN l}

\* SELECT DISTINCT year: the year-end date of every ledger year
years_of(l) == {year_end(l[i].transaction_date) : i \in DOMAIN l}

RECURSIVE SortedDates(_)
\* the dates of S in ascending order
SortedDates(S) ==
  IF S = {} THEN <<>>
  ELSE LET m == CHOOSE x \in S : \A y \in S : DateLE(x, y)
       IN <<m>> \o SortedDates(S \ {m})

\* variant: the ALL_TIME row is added only when the ledger has an entry
rebuild_fin_rows_nonempty(l) ==
  LET ms == SortedDates(months_of(l))
      ys == SortedDates(years_of(l))
  IN [k \in 1..Len(ms) |->
        FinRow(MONTHLY, ms[k], calculate_statistics(l, MONTHLY, ms[k]))]
     \o
     [k \in 1..Len(ys) |->
        FinRow(YEARLY, ys[k], calculate_statistics(l, YEARLY, ys[k]))]
     \o
     (IF DOMAIN l = {} THEN <<>>
      ELSE << FinRow(ALL_TIME, NoDate, calculate_statistics(l, ALL_TIME, NoDate)) >>)

\* the FinancialStatistics rows added by initialize_statistics, in the order
\* added: one per month, one per year, one ALL_TIME
rebuild_fin_rows(l) ==
  LET ms == SortedDates(months_of(l))
      ys == SortedDates(years_of(l))
  IN [k \in 1..Len(ms) |->
        FinRow(MONTHLY, ms[k], calculate_statistics(l, MONTHLY, ms[k]))]
     \o
     [k \in 1..Len(ys) |->
        FinRow(YEARLY, ys[k], calculate_statistics(l, YEARLY, ys[k]))]
     \o
     << FinRow(ALL_TIME, NoDate, calculate_statistics(l, ALL_TIME, NoDate)) >>

RECURSIVE AddCatsForDates(_, _, _, _)
\* the per-month / per-year loops of initialize_category_statistics
AddCatsForDates(cat, l, period, dates) ==
  IF dates = {} THEN cat
  ELSE LET d == CHOOSE x \in dates : TRUE
       IN AddCatsForDates(
            AddCats(cat, period, d, calculate_category_statistics(l, period, d)),
            l, period, dates \ {d})

\* the CategoryStatistics rows added by initialize_category_statistics
rebuild_cat_rows(l) ==
  AddCats(
    AddCatsForDates(
      AddCatsForDates(EmptyBag, l, MONTHLY, months_of(l)),
      l, YEARLY, years_of(l)),
    ALL_TIME, NoDate, calculate_category_statistics(l, ALL_TIME, NoDate))

\* the database after POST /statistics/initialize has run on ledger l
Rebuilt(l) == [ledger |-> l, fin |-> rebuild_fin_rows(l), cat |-> rebuild_cat_rows(l)]

-----------------------------------------------------------------------------
(* State                                                                   *)

VARIABLES
  db,        \* committed content of the SQLite file: [ledger, fin, cat]
  work,      \* content seen inside the open write transaction (= db if none)
  writer,    \* the session holding SQLite's write lock, 0 when free
  pc,        \* position of every request handler ("returned": response sent)
  ses,       \* SQLAlchemy session and locals of every request handler
  nreq,      \* requests started so far
  mode,      \* "conc": handlers overlap; "seq": one request at a time
  replayed,  \* history: only restore / delete / recategorize requests so far,
             \* each with its update_statistics completed
  last,      \* history: the last committed update_statistics
  ret,       \* the value returned by the last direct call of an engine function
  _upload_attempts,  \* routers/transactions.py: client IP -> admitted timestamps
  now,       \* the reading of time.time(), in seconds
  uploads    \* history: the upload attempts that reached _check_rate_limit

\* the upload rate limiter, its clock and its history
limiter == <<_upload_attempts, now, uploads>>

vars == <<db, work, writer, pc, ses, nreq, mode, replayed, last, ret, limiter>>

\* an unloaded FinancialStatistics object
NoObj == [id |-> 0, loaded |-> ZeroData]

\* no dirty Transaction object in the session
NoPending == [id |-> 0, expense_category |-> NULL, income_category |-> NULL]

NoEdit == [id |-> 0, old_expense_category |-> NULL, old_income_category |-> NULL,
           category |-> NULL, transaction_type |-> NULL]

IdleSes ==
  [ op |-> "none", result |-> "none", failed_at |-> "none",
    transaction_date |-> NoDate, txid |-> 0,
    pendingTx |-> NoPending, edit |-> NoEdit,
    monthly_stats |-> NoObj, yearly_stats |-> NoObj, all_time_stats |-> NoObj,
    monthly_data |-> ZeroData, yearly_data |-> ZeroData,
    all_time_data |-> ZeroData,
    pre |-> Buckets(EmptyDb) ]

NoLast == [valid |-> FALSE, date |-> NoDate, ledger |-> EmptyTable,
           buckets |-> Buckets(EmptyDb), repeat |-> 0]

\* no engine function has been called directly
NoRet == [fn |-> "none", period |-> ALL_TIME, target_date |-> NoDate,
          stats |-> ZeroData, categories |-> <<>>]

\* routers/transactions.py: simple in-memory rate limiting (per IP)
RATE_LIMIT_WINDOW_SECONDS == 60
MAX_UPLOADS_PER_WINDOW == 3

\* request.client.host of the clients
ClientIps == {"10.0.0.1", "10.0.0.2"}

\* _upload_attempts = {}: dict.get(client_ip, []) is the empty list
NoAttempts == [ip \in ClientIps |-> <<>>]

\* [t for t in timestamps if t >= window_start]
InWindow(timestamps, t) ==
  SelectSeq(timestamps, LAMBDA x : x >= t - RATE_LIMIT_WINDOW_SECONDS)

\* variant: the limit is reached only when more than MAX_UPLOADS_PER_WINDOW
\* timestamps are in the window
RateLimitedOffByOne(attempts, ip, t) ==
  Len(InWindow(attempts[ip], t)) > MAX_UPLOADS_PER_WINDOW

\* _check_rate_limit raises HTTPException(status_code=429)
RateLimited(attempts, ip, t) ==
  Len(InWindow(attempts[ip], t)) >= MAX_UPLOADS_PER_WINDOW

\* _check_rate_limit(client_ip) when it does not raise: the timestamps of
\* the window and the new one are stored
_check_rate_limit(attempts, ip, t) ==
  [attempts EXCEPT ![ip] = Append(InWindow(@, t), t)]

\* one entry of the history of upload attempts: status 429 when the attempt
\* was rejected by _check_rate_limit, 200 otherwise
Attempt(ip, t, status) == [ip |-> ip, t |-> t, status |-> status]

\* clients are interchangeable: the first attempt comes from the first
\* address, and the second address is used once the first one has been
IpInUse(ip) ==
  \/ ip = "10.0.0.1"
  \/ \E k \in 1..Len(uploads) : uploads[k].ip = "10.0.0.1"

\* the server has just started: no attempt is recorded
InitLimiter ==
  /\ _upload_attempts = NoAttempts
  /\ now = 0
  /\ uploads = <<>>

\* ledgers a deployment may hold when observation starts
InitLedgers == {<<>>} \cup {<<t>> : t \in TxInputs}

\* a fresh install (no rows at all), or any ledger with its statistics
\* rebuilt by POST /statistics/initialize
InitDb(m) ==
  /\ db \in {EmptyDb} \cup {Rebuilt(l) : l \in InitLedgers}
  /\ work = db
  /\ writer = 0
  /\ pc = [p \in Procs |-> "idle"]
  /\ ses = [p \in Procs |-> IdleSes]
  /\ nreq = 0
  /\ mode = m
  /\ replayed = (db = EmptyDb)
  /\ last = NoLast
  /\ ret = NoRet
  /\ InitLimiter

Init == InitDb("conc")

InitSeq == InitDb("seq")

-----------------------------------------------------------------------------
(* SQLite and the SQLAlchemy session                                       *)
(*                                                                         *)
(* database.py opens a SQLite file with the pysqlite driver: a SELECT      *)
(* outside a write transaction reads the committed file; the first         *)
(* INSERT / UPDATE / DELETE of a session takes the file's single write     *)
(* lock and keeps it until COMMIT or ROLLBACK; FOR UPDATE is not rendered  *)
(* for SQLite.  The session is created with autoflush=False: pending       *)
(* objects reach the database only at flush() or commit().                 *)

\* what a SELECT of session p sees
View(p) == IF writer = p THEN work ELSE db

\* the write lock is free or already ours; otherwise the statement waits
CanWrite(p) == writer \in {0, p}

\* While a write transaction is open, the statements of the other sessions
\* see the committed file and cannot write, so each of them behaves as if
\* it ran before the transaction's first write: only that order is explored.
Running(p) == writer \in {0, p}

\* flush of the dirty Transaction object: UPDATE transactions ... WHERE id = ?
FlushTxOK(w, pend) == pend.id = 0 \/ pend.id \in DOMAIN w.ledger

FlushTx(w, pend) ==
  IF pend.id = 0 THEN w
  ELSE [w EXCEPT !.ledger[pend.id].expense_category = pend.expense_category,
                 !.ledger[pend.id].income_category = pend.income_category]

\* flush of a FinancialStatistics object after setattr: the UPDATE carries
\* the attributes whose value differs from the loaded one and addresses the
\* row by primary key; it fails (StaleDataError) when that row is gone
UpdateFinOK(fin, obj, data) == data = obj.loaded \/ obj.id \in DOMAIN fin

\* variant: a row whose recomputed period holds no entry is deleted instead
\* of being overwritten
UpdateFinDropEmpty(fin, obj, data) ==
  IF data = obj.loaded THEN fin
  ELSE IF data.income_count = 0 /\ data.expense_count = 0
  THEN Restrict(fin, DOMAIN fin \ {obj.id})
  ELSE [fin EXCEPT ![obj.id] =
          [k \in DOMAIN @ |->
             IF k \in DataKeys /\ data[k] # obj.loaded[k] THEN data[k] ELSE @[k]]]

UpdateFin(fin, obj, data) ==
  IF data = obj.loaded THEN fin
  ELSE [fin EXCEPT ![obj.id] =
          [k \in DOMAIN @ |->
             IF k \in DataKeys /\ data[k] # obj.loaded[k] THEN data[k] ELSE @[k]]]

\* db.add(FinancialStatistics(period=, date=)); db.flush()
InsertFin(fin, period, date) ==
  fin @@ (NextId(fin) :> FinRow(period, date, ZeroData))

\* variant: the ALL_TIME SELECT also compares the date column with the NULL
\* date of ALL_TIME rows; in SQL "date = NULL" is never true
MatchFinNullDate(fin, period, date) ==
  {i \in DOMAIN fin : fin[i].period = period
                      /\ fin[i].date = date /\ date # NoDate}

\* rows matched by the filter of the three SELECTs of update_statistics
MatchFin(fin, period, date) ==
  {i \in DOMAIN fin : fin[i].period = period
                      /\ (period = ALL_TIME \/ fin[i].date = date)}

\* the event loop runs one coroutine at a time: delete_transaction and
\* upload_csv are "async def" and never await while they use the database
AsyncOps == {"delete_transaction", "upload_csv"}

LoopBusy == \E q \in Procs : pc[q] \notin {"idle", "returned"}
                             /\ ses[q].op \in AsyncOps

\* A request can be accepted.  "seq": handler 1 serves up to MaxRequests
\* requests one after the other.  "conc": every handler serves one request;
\* handlers are interchangeable, so they are started in the order of their
\* numbers.
StartOK(p) ==
  /\ Running(p)
  /\ ~LoopBusy
  /\ mode = "seq" => /\ p = 1
                     /\ pc[p] \in {"idle", "returned"}
                     /\ nreq < MaxRequests
  /\ mode = "conc" => /\ pc[p] = "idle"
                      /\ \A q \in Procs : q < p => pc[q] # "idle"

UpdatePcs ==
  { "us_select_monthly", "us_insert_monthly", "us_select_yearly",
    "us_insert_yearly", "us_select_all_time", "us_insert_all_time",
    "us_calc_monthly", "us_calc_yearly", "us_calc_all_time",
    "uc_delete", "uc_write", "us_commit" }

InitPcs == {"is_build", "ic_purge", "ic_build"}

\* entry of update_statistics(db, transaction_date)
EnterUpdate(p, op, id, date, pend, edit, d) ==
  /\ pc' = [pc EXCEPT ![p] = "us_select_monthly"]
  /\ ses' = [ses EXCEPT ![p] =
       [IdleSes EXCEPT !.op = op, !.txid = id, !.transaction_date = date,
                       !.pendingTx = pend, !.edit = edit,
                       !.pre = Buckets(d)]]

-----------------------------------------------------------------------------
(* routers/transactions.py                                                 *)

\* DELETE /transactions/{id}: delete, commit, then update_statistics
delete_transaction(p) ==
  /\ StartOK(p)
  /\ writer = 0
  /\ \E id \in DOMAIN db.ledger :
       LET d2 == [db EXCEPT !.ledger = Restrict(@, DOMAIN @ \ {id})]
       IN /\ db' = d2
          /\ work' = d2
          /\ EnterUpdate(p, "delete_transaction", id,
                         db.ledger[id].transaction_date, NoPending, NoEdit, d2)
  /\ nreq' = nreq + 1
  /\ UNCHANGED <<ret, limiter, writer, mode, replayed, last>>

\* POST /transactions/restore: add, commit, refresh, then update_statistics
restore_transaction(p) ==
  /\ StartOK(p)
  /\ writer = 0
  /\ Cardinality(DOMAIN db.ledger) < MaxTx
  /\ \E t \in TxInputs :
       LET d2 == [db EXCEPT !.ledger = @ @@ (NextId(@) :> t)]
       IN /\ db' = d2
          /\ work' = d2
          /\ EnterUpdate(p, "restore_transaction", NextId(db.ledger),
                         t.transaction_date,
                         NoPending, NoEdit, d2)
  /\ nreq' = nreq + 1
  /\ UNCHANGED <<ret, limiter, writer, mode, replayed, last>>

\* PATCH /transactions/{id}/category: the new category is set on the loaded
\* object (not flushed), then update_statistics runs
update_transaction_category(p) ==
  /\ StartOK(p)
  /\ \E id \in DOMAIN db.ledger, e \in CategoryEdits :
       LET t == db.ledger[id]
           ec == IF e[2] = EXPENSE THEN e[1] ELSE NULL
           ic == IF e[2] = EXPENSE THEN NULL ELSE e[1]
           dirty == ec # t.expense_category \/ ic # t.income_category
       IN EnterUpdate(p, "update_transaction_category", id, t.transaction_date,
            IF dirty
            THEN [id |-> id, expense_category |-> ec, income_category |-> ic]
            ELSE NoPending,
            [id |-> id, old_expense_category |-> t.expense_category,
             old_income_category |-> t.income_category,
             category |-> e[1], transaction_type |-> e[2]],
            db)
  /\ nreq' = nreq + 1
  /\ UNCHANGED <<ret, limiter, db, work, writer, mode, replayed, last>>

\* POST /transactions/upload/ of a file that passes the guardrails and holds
\* a new row: the attempt is recorded by _check_rate_limit, every row that is
\* not a duplicate is added, then one commit; update_statistics is not called
upload_csv(p) ==
  /\ StartOK(p)
  /\ writer = 0
  /\ Cardinality(DOMAIN db.ledger) < MaxTx
  /\ \E t \in UploadInputs :
       /\ ~\E i \in DOMAIN db.ledger :
              /\ db.ledger[i].transaction_date = t.transaction_date
              /\ db.ledger[i].amount = t.amount
       /\ LET d2 == [db EXCEPT !.ledger = @ @@ (NextId(@) :> t)]
          IN /\ db' = d2
             /\ work' = d2
       /\ ses' = [ses EXCEPT ![p] =
            [IdleSes EXCEPT !.op = "upload_csv", !.result = "ok",
                            !.txid = NextId(db.ledger),
                            !.transaction_date = t.transaction_date]]
  /\ \E ip \in ClientIps :
       /\ IpInUse(ip)
       /\ ~RateLimited(_upload_attempts, ip, now)
       /\ _upload_attempts' = _check_rate_limit(_upload_attempts, ip, now)
       /\ uploads' = Append(uploads, Attempt(ip, now, 200))
  /\ pc' = [pc EXCEPT ![p] = "returned"]
  /\ nreq' = nreq + 1
  /\ replayed' = FALSE
  /\ UNCHANGED <<ret, now, writer, mode, last>>

-----------------------------------------------------------------------------
(* StatisticsService.update_statistics, one action per database statement  *)

Goto(p, label) == pc' = [pc EXCEPT ![p] = label]

\* the row .first() returns, as the loaded object
Loaded(fin, i) == [id |-> i, loaded |-> DataOf(fin[i])]

\* SELECT ... WHERE period = MONTHLY AND date = monthly_date (.first())
us_select_monthly(p) ==
  /\ pc[p] = "us_select_monthly"
  /\ Running(p)
  /\ LET fin == View(p).fin
         m == MatchFin(fin, MONTHLY, month_end(ses[p].transaction_date))
     IN IF m = {}
        THEN Goto(p, "us_insert_monthly") /\ UNCHANGED ses
        ELSE /\ Goto(p, "us_select_yearly")
             /\ \E i \in m : ses' = [ses EXCEPT ![p].monthly_stats = Loaded(fin, i)]
  /\ UNCHANGED <<ret, limiter, db, work, writer, nreq, mode, replayed, last>>

\* the flush of "if not ..._stats": INSERT of the new row with its
\* defaults, and UPDATE of the dirty Transaction object if there is one
InsertStats(p, period, date, field, next) ==
  /\ CanWrite(p)
  /\ FlushTxOK(work, ses[p].pendingTx)
  /\ LET w == FlushTx(work, ses[p].pendingTx)
     IN /\ work' = [w EXCEPT !.fin = InsertFin(@, period, date)]
        /\ ses' = [ses EXCEPT ![p].pendingTx = NoPending,
                              ![p][field] = [id |-> NextId(w.fin),
                                             loaded |-> ZeroData]]
  /\ writer' = p
  /\ Goto(p, next)
  /\ UNCHANGED <<ret, limiter, db, nreq, mode, replayed, last>>

us_insert_monthly(p) ==
  /\ pc[p] = "us_insert_monthly"
  /\ InsertStats(p, MONTHLY, month_end(ses[p].transaction_date),
                 "monthly_stats", "us_select_yearly")

\* SELECT ... WHERE period = YEARLY AND date = yearly_date (.first())
us_select_yearly(p) ==
  /\ pc[p] = "us_select_yearly"
  /\ Running(p)
  /\ LET fin == View(p).fin
         m == MatchFin(fin, YEARLY, year_end(ses[p].transaction_date))
     IN IF m = {}
        THEN Goto(p, "us_insert_yearly") /\ UNCHANGED ses
        ELSE /\ Goto(p, "us_select_all_time")
             /\ \E i \in m : ses' = [ses EXCEPT ![p].yearly_stats = Loaded(fin, i)]
  /\ UNCHANGED <<ret, limiter, db, work, writer, nreq, mode, replayed, last>>

us_insert_yearly(p) ==
  /\ pc[p] = "us_insert_yearly"
  /\ InsertStats(p, YEARLY, year_end(ses[p].transaction_date),
                 "yearly_stats", "us_select_all_time")

\* SELECT ... WHERE period = ALL_TIME (.first())
us_select_all_time(p) ==
  /\ pc[p] = "us_select_all_time"
  /\ Running(p)
  /\ LET fin == View(p).fin
         m == MatchFin(fin, ALL_TIME, NoDate)
     IN IF m = {}
        THEN Goto(p, "us_insert_all_time") /\ UNCHANGED ses
        ELSE /\ Goto(p, "us_calc_monthly")
             /\ \E i \in m : ses' = [ses EXCEPT ![p].all_time_stats = Loaded(fin, i)]
  /\ UNCHANGED <<ret, limiter, db, work, writer, nreq, mode, replayed, last>>

us_insert_all_time(p) ==
  /\ pc[p] = "us_insert_all_time"
  /\ InsertStats(p, ALL_TIME, NoDate, "all_time_stats", "us_calc_monthly")

\* monthly_data = calculate_statistics(db, MONTHLY, transaction_date)
us_calc_monthly(p) ==
  /\ pc[p] = "us_calc_monthly"
  /\ Running(p)
  /\ ses' = [ses EXCEPT ![p].monthly_data =
       calculate_statistics(View(p).ledger, MONTHLY, ses[p].transaction_date)]
  /\ Goto(p, "us_calc_yearly")
  /\ UNCHANGED <<ret, limiter, db, work, writer, nreq, mode, replayed, last>>

\* yearly_data = calculate_statistics(db, YEARLY, transaction_date)
us_calc_yearly(p) ==
  /\ pc[p] = "us_calc_yearly"
  /\ Running(p)
  /\ ses' = [ses EXCEPT ![p].yearly_data =
       calculate_statistics(View(p).ledger, YEARLY, ses[p].transaction_date)]
  /\ Goto(p, "us_calc_all_time")
  /\ UNCHANGED <<ret, limiter, db, work, writer, nreq, mode, replayed, last>>

\* all_time_data = calculate_statistics(db, ALL_TIME); the setattr loop
\* that follows only marks the three objects dirty
us_calc_all_time(p) ==
  /\ pc[p] = "us_calc_all_time"
  /\ Running(p)
  /\ ses' = [ses EXCEPT ![p].all_time_data =
       calculate_statistics(View(p).ledger, ALL_TIME, NoDate)]
  /\ Goto(p, "uc_delete")
  /\ UNCHANGED <<ret, limiter, db, work, writer, nreq, mode, replayed, last>>

\* variant: the bulk DELETEs run in autocommit mode, so the flushed rows and
\* the deletion are committed at once
uc_delete_autocommit(p) ==
  /\ pc[p] = "uc_delete"
  /\ CanWrite(p)
  /\ LET d == ses[p].transaction_date
     IN work' = [work EXCEPT !.cat =
          DeleteCat(DeleteCat(@, MONTHLY, month_end(d)), YEARLY, year_end(d))]
  /\ db' = work'
  /\ writer' = p
  /\ Goto(p, "uc_write")
  /\ UNCHANGED <<ret, limiter, ses, nreq, mode, replayed, last>>

\* update_category_statistics: the two bulk DELETEs of the month's and the
\* year's category rows (no flush happens: autoflush is off)
uc_delete(p) ==
  /\ pc[p] = "uc_delete"
  /\ CanWrite(p)
  /\ LET d == ses[p].transaction_date
     IN work' = [work EXCEPT !.cat =
          DeleteCat(DeleteCat(@, MONTHLY, month_end(d)), YEARLY, year_end(d))]
  /\ writer' = p
  /\ Goto(p, "uc_write")
  /\ UNCHANGED <<ret, limiter, db, ses, nreq, mode, replayed, last>>

\* the category rows update_category_statistics leaves in table cat when it
\* reads ledger l: three calculate_category_statistics calls, the adds, and
\* the bulk DELETE of the ALL_TIME rows
write_categories(cat, l, d) ==
  LET monthly_categories == calculate_category_statistics(l, MONTHLY, d)
      yearly_categories == calculate_category_statistics(l, YEARLY, d)
      all_time_categories == calculate_category_statistics(l, ALL_TIME, NoDate)
  IN AddCats(
       AddCats(
         AddCats(DeleteCatAllTime(cat), MONTHLY, month_end(d), monthly_categories),
         YEARLY, year_end(d), yearly_categories),
       ALL_TIME, NoDate, all_time_categories)

\* the rest of update_category_statistics up to its db.flush(): the new
\* category rows are computed from the ledger as the database holds it, and
\* the flush then writes them, the three dirty statistics objects and the
\* dirty Transaction object
uc_write(p) ==
  /\ pc[p] = "uc_write"
  /\ writer = p
  /\ FlushTxOK(work, ses[p].pendingTx)
  /\ LET d == ses[p].transaction_date
         cat2 == write_categories(work.cat, work.ledger, d)
         f1 == work.fin
         ok1 == UpdateFinOK(f1, ses[p].monthly_stats, ses[p].monthly_data)
         f2 == UpdateFin(f1, ses[p].monthly_stats, ses[p].monthly_data)
         ok2 == UpdateFinOK(f2, ses[p].yearly_stats, ses[p].yearly_data)
         f3 == UpdateFin(f2, ses[p].yearly_stats, ses[p].yearly_data)
         ok3 == UpdateFinOK(f3, ses[p].all_time_stats, ses[p].all_time_data)
         f4 == UpdateFin(f3, ses[p].all_time_stats, ses[p].all_time_data)
     IN /\ ok1 /\ ok2 /\ ok3
        /\ work' = [FlushTx(work, ses[p].pendingTx) EXCEPT !.fin = f4, !.cat = cat2]
  /\ ses' = [ses EXCEPT ![p].pendingTx = NoPending]
  /\ Goto(p, "us_commit")
  /\ UNCHANGED <<ret, limiter, db, writer, nreq, mode, replayed, last>>

\* variant: the commit leaves the connection inside its write transaction,
\* so the write lock is never given back
us_commit_keeps_lock(p) ==
  /\ pc[p] = "us_commit"
  /\ writer = p
  /\ db' = work
  /\ writer' = p
  /\ ses' = [ses EXCEPT ![p].result = "ok"]
  /\ Goto(p, "returned")
  /\ last' = [ valid |-> TRUE, date |-> ses[p].transaction_date,
               ledger |-> work.ledger, buckets |-> Buckets(work),
               repeat |-> IF /\ last.valid
                             /\ last.date = ses[p].transaction_date
                             /\ last.ledger = work.ledger
                          THEN 2 ELSE 1 ]
  /\ UNCHANGED <<ret, limiter, work, nreq, mode, replayed>>

\* db.commit() of update_statistics; the handler then returns
us_commit(p) ==
  /\ pc[p] = "us_commit"
  /\ writer = p
  /\ db' = work
  /\ writer' = 0
  /\ ses' = [ses EXCEPT ![p].result = "ok"]
  /\ Goto(p, "returned")
  /\ last' = [ valid |-> TRUE, date |-> ses[p].transaction_date,
               ledger |-> work.ledger, buckets |-> Buckets(work),
               repeat |-> IF /\ last.valid
                             /\ last.date = ses[p].transaction_date
                             /\ last.ledger = work.ledger
                          THEN 2 ELSE 1 ]
  /\ UNCHANGED <<ret, limiter, work, nreq, mode, replayed>>

-----------------------------------------------------------------------------
(* POST /statistics/initialize: initialize_statistics, then                *)
(* initialize_category_statistics, each in a transaction of its own        *)

\* initialize_statistics: BEGIN, bulk DELETE of FinancialStatistics, flush
initialize_statistics(p) ==
  /\ StartOK(p)
  /\ CanWrite(p)
  /\ work' = [work EXCEPT !.fin = EmptyTable]
  /\ writer' = p
  /\ ses' = [ses EXCEPT ![p] =
       [IdleSes EXCEPT !.op = "initialize_statistics", !.pre = Buckets(db)]]
  /\ Goto(p, "is_build")
  /\ nreq' = nreq + 1
  /\ replayed' = FALSE
  /\ UNCHANGED <<ret, limiter, db, mode, last>>

\* initialize_statistics: the monthly, yearly and ALL_TIME rows are added
\* and filled from calculate_statistics, then db.commit()
is_build(p) ==
  /\ pc[p] = "is_build"
  /\ writer = p
  /\ db' = [work EXCEPT !.fin = rebuild_fin_rows(work.ledger)]
  /\ work' = db'
  /\ writer' = 0
  /\ Goto(p, "ic_purge")
  /\ last' = NoLast
  /\ UNCHANGED <<ret, limiter, ses, nreq, mode, replayed>>

\* initialize_category_statistics: BEGIN, bulk DELETE of CategoryStatistics
ic_purge(p) ==
  /\ pc[p] = "ic_purge"
  /\ CanWrite(p)
  /\ work' = [work EXCEPT !.cat = EmptyBag]
  /\ writer' = p
  /\ Goto(p, "ic_build")
  /\ UNCHANGED <<ret, limiter, db, ses, nreq, mode, replayed, last>>

\* initialize_category_statistics: the category rows of every month, every
\* year and ALL_TIME are added, then db.commit()
ic_build(p) ==
  /\ pc[p] = "ic_build"
  /\ writer = p
  /\ db' = [work EXCEPT !.cat = rebuild_cat_rows(work.ledger)]
  /\ work' = db'
  /\ writer' = 0
  /\ ses' = [ses EXCEPT ![p].result = "ok"]
  /\ Goto(p, "returned")
  /\ last' = NoLast
  /\ UNCHANGED <<ret, limiter, nreq, mode, replayed>>

\* variant: the except clause commits what the session has written so far
\* instead of rolling back
Fail_commits(p) ==
  /\ pc[p] \in UpdatePcs \cup InitPcs
  /\ Running(p)
  /\ db' = IF writer = p THEN work ELSE db
  /\ writer' = IF writer = p THEN 0 ELSE writer
  /\ ses' = [ses EXCEPT ![p].result = "error", ![p].failed_at = pc[p],
                        ![p].pendingTx = NoPending]
  /\ Goto(p, "returned")
  /\ replayed' = IF ses[p].op \in {"delete_transaction", "restore_transaction"}
                 THEN FALSE ELSE replayed
  /\ UNCHANGED <<ret, limiter, work, nreq, mode, last>>

\* an exception inside update_statistics or the rebuild (storage failure,
\* "database is locked" after the busy timeout, StaleDataError): nothing is
\* caught before the handler, whose session is rolled back
Fail(p) ==
  /\ pc[p] \in UpdatePcs \cup InitPcs
  /\ Running(p)
  /\ work' = IF writer = p THEN db ELSE work
  /\ writer' = IF writer = p THEN 0 ELSE writer
  /\ ses' = [ses EXCEPT ![p].result = "error", ![p].failed_at = pc[p],
                        ![p].pendingTx = NoPending]
  /\ Goto(p, "returned")
  /\ replayed' = IF ses[p].op \in {"delete_transaction", "restore_transaction"}
                 THEN FALSE ELSE replayed
  /\ UNCHANGED <<ret, limiter, db, nreq, mode, last>>

Next ==
  \E p \in Procs :
    \/ delete_transaction(p)
    \/ restore_transaction(p)
    \/ update_transaction_category(p)
    \/ upload_csv(p)
    \/ us_select_monthly(p)
    \/ us_insert_monthly(p)
    \/ us_select_yearly(p)
    \/ us_insert_yearly(p)
    \/ us_select_all_time(p)
    \/ us_insert_all_time(p)
    \/ us_calc_monthly(p)
    \/ us_calc_yearly(p)
    \/ us_calc_all_time(p)
    \/ uc_delete(p)
    \/ uc_write(p)
    \/ us_commit(p)
    \/ initialize_statistics(p)
    \/ is_build(p)
    \/ ic_purge(p)
    \/ ic_build(p)
    \/ Fail(p)

\* request handlers overlapping as the server schedules them
Spec == Init /\ [][Next]_vars

\* one request at a time
SpecSeq == InitSeq /\ [][Next]_vars

\* a handler that is inside update_statistics or the rebuild executes its
\* next statement
Continue(p) ==
  \/ Fail(p)
  \/ us_select_monthly(p) \/ us_insert_monthly(p)
  \/ us_select_yearly(p) \/ us_insert_yearly(p)
  \/ us_select_all_time(p) \/ us_insert_all_time(p)
  \/ us_calc_monthly(p) \/ us_calc_yearly(p) \/ us_calc_all_time(p)
  \/ uc_delete(p) \/ uc_write(p) \/ us_commit(p)
  \/ is_build(p) \/ ic_purge(p) \/ ic_build(p)

\* overlapping handlers, each of which keeps running: a thread that can
\* execute its next statement does so, and a statement that waits for the
\* write lock goes on once the lock is free.  Observation starts on a fresh
\* install or on a one-entry ledger with rebuilt statistics.
InitLive ==
  /\ Init
  /\ db \in {EmptyDb,
             Rebuilt(<<Tx(<<2023, 3, 10>>, -50, EXPENSE, "Groceries", NULL)>>)}

SpecLive == InitLive /\ [][Next]_vars /\ \A p \in Procs : WF_vars(Continue(p))

-----------------------------------------------------------------------------
(* Direct calls of the two aggregation engines on a stored ledger          *)

\* largest ledger the engines are called on
MaxLedger == 3

\* ledger entries the engines are called on: the entries of March 2023, an
\* entry of the year before, one later in the same year, and a transfer
EngineInputs ==
  { Tx(<<2023, 3, 5>>, 1000, INCOME, NULL, "Salary"),
    Tx(<<2023, 3, 10>>, -50, EXPENSE, "Groceries", NULL),
    Tx(<<2023, 3, 12>>, -30, EXPENSE, "Transportation", NULL),
    Tx(<<2022, 12, 31>>, -20, EXPENSE, "Groceries", NULL),
    Tx(<<2023, 4, 1>>, 200, INCOME, NULL, "Salary"),
    Tx(<<2024, 2, 29>>, -40, TRANSFER, NULL, NULL) }

EngineLedgers ==
  UNION {[1..n -> EngineInputs] : n \in 0..MaxLedger}

\* target_date arguments
EngineDates == {<<2023, 3, 15>>, <<2022, 12, 1>>, <<2024, 2, 10>>}

\* (period, target_date) argument pairs: ALL_TIME is called without a date
EngineCalls ==
  ({MONTHLY, YEARLY} \X EngineDates) \cup {<<ALL_TIME, NoDate>>}

InitEngine ==
  /\ db \in {[EmptyDb EXCEPT !.ledger = l] : l \in EngineLedgers}
  /\ work = db
  /\ writer = 0
  /\ pc = [p \in Procs |-> "idle"]
  /\ ses = [p \in Procs |-> IdleSes]
  /\ nreq = 0
  /\ mode = "engine"
  /\ replayed = FALSE
  /\ last = NoLast
  /\ ret = NoRet
  /\ InitLimiter

\* StatisticsService.calculate_statistics(db, period, target_date)
call_calculate_statistics ==
  /\ \E c \in EngineCalls :
       ret' = [NoRet EXCEPT !.fn = "calculate_statistics",
                            !.period = c[1], !.target_date = c[2],
                            !.stats = calculate_statistics(db.ledger, c[1], c[2])]
  /\ UNCHANGED <<limiter, db, work, writer, pc, ses, nreq, mode, replayed, last>>

\* StatisticsService.calculate_category_statistics(db, period, target_date)
call_calculate_category_statistics ==
  /\ \E c \in EngineCalls :
       ret' = [NoRet EXCEPT !.fn = "calculate_category_statistics",
                            !.period = c[1], !.target_date = c[2],
                            !.categories =
                              calculate_category_statistics(db.ledger, c[1], c[2])]
  /\ UNCHANGED <<limiter, db, work, writer, pc, ses, nreq, mode, replayed, last>>

NextEngine ==
  \/ call_calculate_statistics
  \/ call_calculate_category_statistics

\* the engines called on any stored ledger
SpecEngine == InitEngine /\ [][NextEngine]_vars

-----------------------------------------------------------------------------
(* Properties                                                              *)

UpdateOps ==
  {"delete_transaction", "restore_transaction", "update_transaction_category"}

\* handler p has sent its response after a successful run
Done(p) == pc[p] = "returned" /\ ses[p].result = "ok"

\* no handler is in the middle of a request
Quiet == \A p \in Procs : pc[p] \in {"idle", "returned"}

\* the PeriodKey under which update_statistics(d) stores a granularity
period_key(period, d) ==
  CASE period = MONTHLY -> month_end(d)
    [] period = YEARLY  -> year_end(d)
    [] OTHER            -> NoDate

\* the stored OverallBucket rows of the bucket that date d falls in
RowsOf(fin, period, d) ==
  {fin[i] : i \in {k \in DOMAIN fin : /\ fin[k].period = period
                                      /\ fin[k].date = period_key(period, d)}}

\* the bucket of date d is stored and reflects ledger l
Reflects(fin, l, period, d) ==
  /\ RowsOf(fin, period, d) # {}
  /\ \A r \in RowsOf(fin, period, d) :
       DataOf(r) = calculate_statistics(l, period, d)

\* C1: Convergence.  After any non-empty sequence of restore, delete and
\* recategorize requests that started from an empty database, each having
\* run update_statistics on the affected date, the stored OverallBucket and
\* CategoryBucket rows equal the rows of a rebuild on the final ledger.
C1_Convergence ==
  (replayed /\ nreq > 0 /\ Quiet) => Buckets(db) = Buckets(Rebuilt(db.ledger))

\* C2: after every completed update_statistics(d), every stored Monthly and
\* Yearly OverallBucket row (also of a period later than d) carries the
\* cumulative totals, and every Monthly row the year-to-date totals, of the
\* current ledger up to the row's period key.
C2_CumulativeCurrent ==
  \A p \in Procs :
    (Done(p) /\ ses[p].op \in UpdateOps) =>
      \A i \in DOMAIN db.fin :
        LET row == db.fin[i]
            ref == calculate_statistics(db.ledger, row.period, row.date)
        IN row.period \in {MONTHLY, YEARLY} =>
             /\ row.total_income = ref.total_income
             /\ row.total_expenses = ref.total_expenses
             /\ row.total_net_savings = ref.total_net_savings
             /\ row.period = MONTHLY =>
                  /\ row.yearly_income = ref.yearly_income
                  /\ row.yearly_expenses = ref.yearly_expenses

\* C3: no lost update.  When two requests have mutated two different
\* transactions of the same month and both have finished their
\* update_statistics, the committed Monthly, Yearly and AllTime rows of that
\* date equal calculate_statistics on the final ledger, whatever the
\* interleaving was.
C3_NoLostUpdate ==
  \A p, q \in Procs :
    ( /\ p # q
      /\ Done(p) /\ ses[p].op \in UpdateOps
      /\ Done(q) /\ ses[q].op \in UpdateOps
      /\ ses[p].txid # ses[q].txid
      /\ month_end(ses[p].transaction_date) = month_end(ses[q].transaction_date) )
    => \A period \in StatisticsPeriod :
         Reflects(db.fin, db.ledger, period, ses[p].transaction_date)

\* the ALL_TIME rows of FinancialStatistics
AllTimeRows(fin) == {i \in DOMAIN fin : fin[i].period = ALL_TIME}

\* C4: once an update_statistics or initialize_statistics has committed,
\* every committed state holds exactly one ALL_TIME FinancialStatistics row,
\* under any interleaving of updates and rebuilds.
C4_OneAllTimeRow ==
  ( \/ db.fin # EmptyTable
    \/ \E p \in Procs :
         Done(p) /\ ses[p].op \in UpdateOps \cup {"initialize_statistics"} )
  => Cardinality(AllTimeRows(db.fin)) = 1

\* two update_statistics invocations that both started while no ALL_TIME row
\* existed have both committed
C4_Witness ==
  /\ \A p \in Procs : /\ Done(p)
                      /\ ses[p].op \in UpdateOps
                      /\ ses[p].pre.fin = EmptyBag
  /\ Cardinality(AllTimeRows(db.fin)) = 1

MutatingOps == UpdateOps \cup {"upload_csv"}

\* C5: when a request that inserted, deleted or recategorized a ledger
\* entry (upload_csv, restore_transaction, delete_transaction,
\* update_transaction_category) has completed, update_statistics has run
\* for the affected date: its Monthly, Yearly and AllTime buckets are stored
\* and reflect the committed ledger.
C5_MutationsUpdateStatistics ==
  \A p \in Procs :
    (Done(p) /\ ses[p].op \in MutatingOps) =>
      \A period \in StatisticsPeriod :
        Reflects(db.fin, db.ledger, period, ses[p].transaction_date)

\* the ledger entries of the month of d that carry expense category c
MonthOfCategory(l, d, c) ==
  {i \in DOMAIN l : /\ month_end(l[i].transaction_date) = month_end(d)
                    /\ l[i].expense_category = c}

\* the Monthly expense CategoryBucket rows of the month of d for category c
MonthlyCategoryRows(cat, d, c) ==
  {r \in DOMAIN cat : /\ r.period = MONTHLY
                      /\ r.date = month_end(d)
                      /\ r.transaction_type = EXPENSE
                      /\ r.category_name = c}

\* C6: after update_transaction_category has moved an expense from category
\* A to category B, the committed Monthly CategoryBucket rows of that month
\* show the full amount under B and nothing of it under A (A's row is
\* absent when A has no other transaction that month), whether or not the
\* OverallBucket rows of that date existed before the call.
C6_RecategorizeMovesAmount ==
  \A p \in Procs :
    LET e == ses[p].edit
        d == ses[p].transaction_date
        A == e.old_expense_category
        B == e.category
    IN ( /\ Done(p)
         /\ ses[p].op = "update_transaction_category"
         /\ e.transaction_type = EXPENSE
         /\ A \notin {NULL, B}
         /\ e.id \in DOMAIN db.ledger
         /\ db.ledger[e.id].transaction_type = EXPENSE )
       => /\ MonthlyCategoryRows(db.cat, d, B) # {}
          /\ \A r \in MonthlyCategoryRows(db.cat, d, B) :
               r.period_amount = SumAbs(db.ledger, MonthOfCategory(db.ledger, d, B))
          /\ IF MonthOfCategory(db.ledger, d, A) = {}
             THEN MonthlyCategoryRows(db.cat, d, A) = {}
             ELSE \A r \in MonthlyCategoryRows(db.cat, d, A) :
                    r.period_amount =
                      SumAbs(db.ledger, MonthOfCategory(db.ledger, d, A))

\* the CategoryBucket rows of one bucket key and kind
CategoryRowsOf(cat, period, date, kind) ==
  {r \in DOMAIN cat : r.period = period /\ r.date = date
                      /\ r.transaction_type = kind}

RECURSIVE SumPeriodAmount(_, _)
\* sum of period_amount over the rows of a set, with their multiplicity
SumPeriodAmount(cat, rows) ==
  IF rows = {} THEN 0
  ELSE LET r == CHOOSE x \in rows : TRUE
       IN r.period_amount * cat[r] + SumPeriodAmount(cat, rows \ {r})

\* C7: Additivity.  In every state after a completed update_statistics or
\* rebuild, for every stored OverallBucket key the period_amount of the
\* CategoryBucket rows of that key sums to period_expenses (kind Expense)
\* and to period_income (kind Income).
C7_Additivity ==
  (\E p \in Procs :
     Done(p) /\ ses[p].op \in UpdateOps \cup {"initialize_statistics"})
  => \A i \in DOMAIN db.fin :
       LET row == db.fin[i]
       IN /\ SumPeriodAmount(db.cat,
               CategoryRowsOf(db.cat, row.period, row.date, EXPENSE))
             = row.period_expenses
          /\ SumPeriodAmount(db.cat,
               CategoryRowsOf(db.cat, row.period, row.date, INCOME))
             = row.period_income

\* C8: net-savings identity.  In every reachable state every stored
\* OverallBucket row, committed or just inserted with its defaults inside
\* an open transaction, has period_net_savings = period_income -
\* period_expenses and total_net_savings = total_income - total_expenses.
C8_NetSavingsIdentity ==
  \A d \in {db, work} :
    \A i \in DOMAIN d.fin :
      /\ d.fin[i].period_net_savings
           = d.fin[i].period_income - d.fin[i].period_expenses
      /\ d.fin[i].total_net_savings
           = d.fin[i].total_income - d.fin[i].total_expenses

\* C9: Idempotence.  When update_statistics(d) commits right after an
\* update_statistics(d) with no ledger change in between, all OverallBucket
\* and CategoryBucket rows are the same as after the first call.
C9_Idempotence ==
  [][ \A p \in Procs :
        ( /\ us_commit(p)
          /\ last.valid
          /\ last.date = ses[p].transaction_date
          /\ last.ledger = db.ledger
          /\ last.ledger = work.ledger )
        => Buckets(db') = last.buckets ]_vars

\* C10: while update_statistics has not reached the end of its final commit,
\* and after it has failed at any step, the committed OverallBucket and
\* CategoryBucket rows are exactly those from before the invocation: none
\* of its writes is committed before the single commit at its end.
C10_AtomicRollback ==
  \A p \in Procs :
    ( /\ ses[p].op \in UpdateOps
      /\ \/ pc[p] \in UpdatePcs
         \/ pc[p] = "returned" /\ ses[p].result = "error" )
    => Buckets(db) = ses[p].pre

\* update_statistics has failed after update_category_statistics deleted
\* and rewrote category rows, and the rows from before are still stored
C10_Witness ==
  \E p \in Procs :
    /\ pc[p] = "returned"
    /\ ses[p].op \in UpdateOps
    /\ ses[p].result = "error"
    /\ ses[p].failed_at \in {"uc_write", "us_commit"}
    /\ ses[p].pre.cat # EmptyBag
    /\ Buckets(db) = ses[p].pre

\* C11: the rebuild of POST /statistics/initialize is one atomic commit.
\* While it runs, no committed state holds the rebuilt OverallBucket rows
\* next to the CategoryBucket rows from before the rebuild; and when it
\* fails in its category phase, both bucket families are committed as they
\* were before the rebuild.
C11_AtomicRebuild ==
  \A p \in Procs :
    ses[p].op = "initialize_statistics" =>
      /\ pc[p] \in InitPcs =>
           ~ ( /\ FinBag(db.fin) = FinBag(rebuild_fin_rows(db.ledger))
               /\ FinBag(db.fin) # ses[p].pre.fin
               /\ db.cat = ses[p].pre.cat
               /\ db.cat # rebuild_cat_rows(db.ledger) )
      /\ ( /\ pc[p] = "returned"
           /\ ses[p].result = "error"
           /\ ses[p].failed_at \in {"ic_purge", "ic_build"} )
         => Buckets(db) = ses[p].pre

\* a statement of update_statistics that reads or writes bucket rows
BucketStatement(p) ==
  \/ us_select_monthly(p) \/ us_insert_monthly(p)
  \/ us_select_yearly(p) \/ us_insert_yearly(p)
  \/ us_select_all_time(p) \/ us_insert_all_time(p)
  \/ uc_delete(p) \/ uc_write(p) \/ us_commit(p)

\* C12: rebuild exclusivity.  From the start of a rebuild until its bucket
\* rows are committed, no update_statistics invocation reads or writes
\* bucket rows: every update_statistics runs entirely before or entirely
\* after the whole rebuild.
C12_RebuildExclusive ==
  [][ \A p, q \in Procs :
        ( /\ p # q
          /\ ses[q].op = "initialize_statistics"
          /\ pc[q] \in InitPcs )
        => ~BucketStatement(p) ]_vars

\* the three OverallBucket rows are taken in the order Monthly, Yearly,
\* AllTime
LockOrder ==
  \A p \in Procs :
    /\ ses[p].all_time_stats # NoObj => ses[p].yearly_stats # NoObj
    /\ ses[p].yearly_stats # NoObj => ses[p].monthly_stats # NoObj

\* C13: update_statistics takes its OverallBucket rows in the fixed order
\* Monthly, Yearly, AllTime, and under any interleaving of concurrent
\* invocations no deadlock is reachable: every invocation eventually
\* commits or fails.
C13_NoDeadlock ==
  /\ []LockOrder
  /\ \A p \in Procs :
       (pc[p] \in UpdatePcs /\ ses[p].op \in UpdateOps)
         ~> (pc[p] = "returned" /\ ses[p].result \in {"ok", "error"})

\* an update_statistics invocation waits for the write lock that another
\* invocation, working on a different month, holds
C13_Witness ==
  \E p, q \in Procs :
    /\ p # q
    /\ writer = q
    /\ ses[p].op \in UpdateOps /\ ses[q].op \in UpdateOps
    /\ pc[q] \in UpdatePcs
    /\ pc[p] \in {"us_insert_monthly", "us_insert_yearly",
                  "us_insert_all_time", "uc_delete"}
    /\ month_end(ses[p].transaction_date) # month_end(ses[q].transaction_date)

\* the entries of ledger l in the calendar month of date d
EntriesOfMonth(l, d) ==
  {i \in DOMAIN l : /\ l[i].transaction_date[1] = d[1]
                    /\ l[i].transaction_date[2] = d[2]}

\* the entries of ledger l dated up to the last day of the month of d
EntriesUpToMonth(l, d) ==
  {i \in DOMAIN l : \/ l[i].transaction_date[1] < d[1]
                    \/ /\ l[i].transaction_date[1] = d[1]
                       /\ l[i].transaction_date[2] <= d[2]}

\* the entries of ledger l from Jan 1 of the year of d up to the last day
\* of the month of d
EntriesOfYearToMonth(l, d) ==
  {i \in DOMAIN l : /\ l[i].transaction_date[1] = d[1]
                    /\ l[i].transaction_date[2] <= d[2]}

\* the entries of a set that are of one kind
OfKind(l, S, kind) == {i \in S : l[i].transaction_type = kind}

\* C14: for Monthly granularity calculate_statistics returns the period
\* income, expenses and counts of exactly the entries of the target's
\* calendar month, the cumulative totals of the entries dated up to the last
\* day of that month and the yearly totals of the entries from Jan 1 of that
\* year up to that day; expenses are sums of absolute values, net savings
\* is income minus expenses and savings_rate = net / income * 100.
C14_MonthlyWindows ==
  (ret.fn = "calculate_statistics" /\ ret.period = MONTHLY) =>
    LET l == db.ledger
        d == ret.target_date
        M == EntriesOfMonth(l, d)
        U == EntriesUpToMonth(l, d)
        Y == EntriesOfYearToMonth(l, d)
        income == SumAmount(l, OfKind(l, M, INCOME))
        expenses == SumAbs(l, OfKind(l, M, EXPENSE))
    IN /\ ret.stats.period_income = income
       /\ ret.stats.period_expenses = expenses
       /\ ret.stats.income_count = Cardinality(OfKind(l, M, INCOME))
       /\ ret.stats.expense_count = Cardinality(OfKind(l, M, EXPENSE))
       /\ ret.stats.period_net_savings = income - expenses
       /\ income > 0 => ret.stats.savings_rate = ((income - expenses) * 100) \div income
       /\ ret.stats.total_income = SumAmount(l, OfKind(l, U, INCOME))
       /\ ret.stats.total_expenses = SumAbs(l, OfKind(l, U, EXPENSE))
       /\ ret.stats.yearly_income = SumAmount(l, OfKind(l, Y, INCOME))
       /\ ret.stats.yearly_expenses = SumAbs(l, OfKind(l, Y, EXPENSE))

\* C15: for Yearly granularity calculate_statistics returns yearly_income
\* equal to period_income and yearly_expenses equal to period_expenses,
\* also for ledgers that hold entries of other years.
C15_YearlyFieldsEqualPeriod ==
  (ret.fn = "calculate_statistics" /\ ret.period = YEARLY) =>
    /\ ret.stats.yearly_income = ret.stats.period_income
    /\ ret.stats.yearly_expenses = ret.stats.period_expenses

\* the entries of a set that carry category cat of the snapshot's kind
OfCategory(l, S, snap) ==
  {i \in S : IF snap.transaction_type = EXPENSE
             THEN l[i].expense_category = snap.category_name
             ELSE l[i].income_category = snap.category_name}

\* the sum a category snapshot reports for a set of entries: absolute values
\* for an expense category, signed amounts for an income category
CategorySum(l, S, snap) ==
  IF snap.transaction_type = EXPENSE THEN SumAbs(l, S) ELSE SumAmount(l, S)

\* C16: for Yearly granularity every category snapshot has yearly_amount =
\* period_amount and yearly_transaction_count = period_transaction_count;
\* for Monthly granularity the two yearly fields are the category's totals
\* from Jan 1 of the year up to the month end.
C16_CategoryYearlyFields ==
  ret.fn = "calculate_category_statistics" =>
    \A k \in DOMAIN ret.categories :
      LET snap == ret.categories[k]
          Y == OfCategory(db.ledger,
                          EntriesOfYearToMonth(db.ledger, ret.target_date), snap)
      IN /\ ret.period = YEARLY =>
              /\ snap.yearly_amount = snap.period_amount
              /\ snap.yearly_transaction_count = snap.period_transaction_count
         /\ ret.period = MONTHLY =>
              /\ snap.yearly_amount = CategorySum(db.ledger, Y, snap)
              /\ snap.yearly_transaction_count = Cardinality(Y)

\* the period total of a kind stored in an OverallBucket row
PeriodTotal(row, kind) ==
  IF kind = EXPENSE THEN row.period_expenses ELSE row.period_income

\* C17: while no request is in progress and none has failed, every stored
\* CategoryBucket row has period_percentage = period_amount / D * 100, where
\* D is the period total of the row's kind stored in the OverallBucket of
\* the same granularity and period, and period_percentage = 0 when D is 0.
C17_PercentageOfOverall ==
  (Quiet /\ \A p \in Procs : ses[p].result # "error") =>
    \A r \in DOMAIN db.cat :
      \A i \in DOMAIN db.fin :
        (db.fin[i].period = r.period /\ db.fin[i].date = r.date) =>
          LET D == PeriodTotal(db.fin[i], r.transaction_type)
          IN r.period_percentage =
               IF D = 0 THEN 0 ELSE (r.period_amount * 100) \div D

\* the ledger entries that fall into the bucket (period, date) and carry
\* the category and kind of CategoryBucket row r
EntriesOfCategoryRow(l, r) ==
  {i \in DOMAIN l :
     /\ IF r.transaction_type = EXPENSE
        THEN l[i].expense_category = r.category_name
        ELSE l[i].income_category = r.category_name
     /\ CASE r.period = MONTHLY -> /\ l[i].transaction_date[1] = r.date[1]
                                   /\ l[i].transaction_date[2] = r.date[2]
          [] r.period = YEARLY  -> l[i].transaction_date[1] = r.date[1]
          [] OTHER              -> TRUE}

\* C18: every committed CategoryBucket row has period_transaction_count > 0;
\* and when a delete_transaction or update_transaction_category request has
\* completed its update_statistics, a category that has no transaction left
\* in the month, the year or the whole ledger has no row for that period.
C18_NoEmptyCategoryRows ==
  /\ \A r \in DOMAIN db.cat : r.period_transaction_count > 0
  /\ \A p \in Procs :
       ( /\ Done(p)
         /\ ses[p].op \in {"delete_transaction", "update_transaction_category"} )
       => \A r \in DOMAIN db.cat :
            (r.date = period_key(r.period, ses[p].transaction_date))
              => EntriesOfCategoryRow(db.ledger, r) # {}

\* C19: calculate_category_statistics never returns a snapshot whose
\* period_transaction_count is 0: a category without a transaction in the
\* target period is absent from the returned list.
C19_NoEmptySnapshots ==
  ret.fn = "calculate_category_statistics" =>
    \A k \in DOMAIN ret.categories :
      ret.categories[k].period_transaction_count > 0

\* the entries of ledger l in the period window of a granularity
EntriesOfPeriod(l, period, d) ==
  {i \in DOMAIN l :
     CASE period = MONTHLY -> /\ l[i].transaction_date[1] = d[1]
                              /\ l[i].transaction_date[2] = d[2]
       [] period = YEARLY  -> l[i].transaction_date[1] = d[1]
       [] OTHER            -> TRUE}

\* the period total of a kind that a category percentage is taken of
KindTotal(l, period, d, kind) ==
  LET S == OfKind(l, EntriesOfPeriod(l, period, d), kind)
  IN IF kind = EXPENSE THEN SumAbs(l, S) ELSE SumAmount(l, S)

\* C20: degenerate inputs never fail.  For every ledger calculate_statistics
\* returns savings_rate = 0 when period_income is 0 and average_income /
\* average_expense = 0 when the respective count is 0, and
\* calculate_category_statistics returns period_percentage = 0 when the
\* kind's period total is 0 and average_transaction_amount = 0 when the
\* count is 0.
C20_DegenerateInputs ==
  /\ ret.fn = "calculate_statistics" =>
       /\ ret.stats.period_income = 0 => ret.stats.savings_rate = 0
       /\ ret.stats.income_count = 0 => ret.stats.average_income = 0
       /\ ret.stats.expense_count = 0 => ret.stats.average_expense = 0
  /\ ret.fn = "calculate_category_statistics" =>
       \A k \in DOMAIN ret.categories :
         LET snap == ret.categories[k]
         IN /\ KindTotal(db.ledger, ret.period, ret.target_date,
                         snap.transaction_type) = 0
               => snap.period_percentage = 0
            /\ snap.period_transaction_count = 0
               => snap.average_transaction_amount = 0

\* calculate_statistics has returned for a period that holds an expense and
\* no income
C20_Witness ==
  /\ ret.fn = "calculate_statistics"
  /\ ret.stats.period_income = 0
  /\ ret.stats.income_count = 0
  /\ ret.stats.period_expenses > 0
  /\ ret.stats.savings_rate = 0
  /\ ret.stats.average_income = 0

\* the ledger l holds no entry of the month of date d
MonthEmpty(l, d) == EntriesOfMonth(l, d) = {}

\* the period fields of an OverallBucket row are all 0
PeriodFieldsZero(r) ==
  /\ r.period_income = 0
  /\ r.period_expenses = 0
  /\ r.period_net_savings = 0
  /\ r.income_count = 0
  /\ r.expense_count = 0
  /\ r.average_income = 0
  /\ r.average_expense = 0

FIXED_ESSENTIAL == "Fixed Essential"
GUILT_FREE_DISCRETIONARY == "Discretionary"
SAVINGS_INVESTMENT == "Savings & Investment"
NEUTRAL == "Neutral"
ExpenseType ==
  {FIXED_ESSENTIAL, GUILT_FREE_DISCRETIONARY, SAVINGS_INVESTMENT, NEUTRAL}

\* ExpenseCategory.expense_type of the category named cat
expense_type(cat) ==
  IF cat \in { "Housing", "Utilities", "Groceries", "Transportation",
               "Insurance", "Health", "Loan Repayment", "Credit Payment",
               "Debt", "Financial Fees" }
  THEN FIXED_ESSENTIAL
  ELSE IF cat \in {"Investments", "Savings"} THEN SAVINGS_INVESTMENT
  ELSE IF cat \in {"Internal Transfer"} THEN NEUTRAL
  ELSE GUILT_FREE_DISCRETIONARY

\* C22: every snapshot that calculate_category_statistics returns for an
\* expense category has an expense_type field that is not null and equals the
\* classification of the category, and every persisted expense CategoryBucket
\* row carries a non-null expense_type.
C22_ExpenseTypeTagged ==
  /\ ret.fn = "calculate_category_statistics" =>
       \A k \in 1..Len(ret.categories) :
         ret.categories[k].transaction_type = EXPENSE =>
           /\ "expense_type" \in DOMAIN ret.categories[k]
           /\ ret.categories[k].expense_type \in ExpenseType
           /\ ret.categories[k].expense_type
                = expense_type(ret.categories[k].category_name)
  /\ \A r \in DOMAIN db.cat :
       r.transaction_type = EXPENSE => r.expense_type \in ExpenseType

-----------------------------------------------------------------------------
(* Mutations and rebuilds of a one-entry ledger dated anywhere in the       *)
(* calendar                                                                 *)

\* years of the transaction dates: a common year, a leap year, a century
\* year that is not a leap year and one that is
CalYears == {1900, 2000, 2023, 2024}

\* transaction dates: the first day, the 15th and the last day of every
\* month of CalYears
CalDates ==
  UNION {{<<y, m, 1>>, <<y, m, 15>>, <<y, m, monthrange(y, m)>>} :
           y \in CalYears, m \in 1..12}

\* the transactions table after a CSV upload of one expense row on a fresh
\* install: no statistics row exists yet
InitCalendar ==
  /\ db \in {[EmptyDb EXCEPT !.ledger =
                <<Tx(d, -50, EXPENSE, "Groceries", NULL)>>] : d \in CalDates}
  /\ work = db
  /\ writer = 0
  /\ pc = [p \in Procs |-> "idle"]
  /\ ses = [p \in Procs |-> IdleSes]
  /\ nreq = 0
  /\ mode = "seq"
  /\ replayed = FALSE
  /\ last = NoLast
  /\ ret = NoRet
  /\ InitLimiter

\* the requests that recompute or rebuild the buckets of a stored entry
NextCalendar ==
  \E p \in Procs :
    \/ delete_transaction(p)
    \/ update_transaction_category(p)
    \/ us_select_monthly(p)
    \/ us_insert_monthly(p)
    \/ us_select_yearly(p)
    \/ us_insert_yearly(p)
    \/ us_select_all_time(p)
    \/ us_insert_all_time(p)
    \/ us_calc_monthly(p)
    \/ us_calc_yearly(p)
    \/ us_calc_all_time(p)
    \/ uc_delete(p)
    \/ uc_write(p)
    \/ us_commit(p)
    \/ initialize_statistics(p)
    \/ is_build(p)
    \/ ic_purge(p)
    \/ ic_build(p)
    \/ Fail(p)

\* one such request at a time on such a ledger
SpecCalendar == InitCalendar /\ [][NextCalendar]_vars

\* the number of days of month m of year y in the Gregorian calendar
LastDayOfMonth(y, m) ==
  CASE m \in {1, 3, 5, 7, 8, 10, 12} -> 31
    [] m \in {4, 6, 9, 11}           -> 30
    [] m = 2 -> IF y % 400 = 0 THEN 29
                ELSE IF y % 100 = 0 THEN 28
                ELSE IF y % 4 = 0 THEN 29 ELSE 28

\* the bucket keys of the OverallBucket and CategoryBucket rows of database d
BucketKeys(d, period) ==
  {d.fin[i].date : i \in {k \in DOMAIN d.fin : d.fin[k].period = period}}
  \cup {r.date : r \in {x \in DOMAIN d.cat : x.period = period}}

\* C23: every Monthly bucket key written by update_statistics,
\* update_category_statistics or the rebuild is the last calendar day of its
\* month (Feb 29 in leap years, Feb 28 otherwise) and every Yearly key is
\* Dec 31 of its year; the keys written for a mutated transaction are those
\* of its month and year, whatever its day of the month.
C23_CalendarKeys ==
  /\ \A d \in {db, work} :
       /\ \A k \in BucketKeys(d, MONTHLY) :
            k[2] \in 1..12 /\ k[3] = LastDayOfMonth(k[1], k[2])
       /\ \A k \in BucketKeys(d, YEARLY) : k[2] = 12 /\ k[3] = 31
  /\ \A p \in Procs :
       (Done(p) /\ ses[p].op \in UpdateOps) =>
         LET t == ses[p].transaction_date
         IN /\ \E i \in DOMAIN db.fin :
                 /\ db.fin[i].period = MONTHLY
                 /\ db.fin[i].date = <<t[1], t[2], LastDayOfMonth(t[1], t[2])>>
            /\ \E i \in DOMAIN db.fin :
                 /\ db.fin[i].period = YEARLY
                 /\ db.fin[i].date = <<t[1], 12, 31>>
  /\ \A p \in Procs :
       (Done(p) /\ ses[p].op = "initialize_statistics") =>
         \A j \in DOMAIN db.ledger :
           LET t == db.ledger[j].transaction_date
           IN /\ <<t[1], t[2], LastDayOfMonth(t[1], t[2])>>
                   \in BucketKeys(db, MONTHLY)
              /\ <<t[1], 12, 31>> \in BucketKeys(db, YEARLY)

\* update_statistics has written the buckets of a transaction of the 15th of
\* February 1900 (28 days), and of one of the 1st of February 2024 (29 days)
C23_Witness ==
  \E p \in Procs :
    /\ Done(p)
    /\ ses[p].op \in UpdateOps
    /\ ses[p].transaction_date \in {<<1900, 2, 15>>, <<2000, 2, 15>>}
    /\ \E k \in BucketKeys(db, MONTHLY) : k \in {<<1900, 2, 28>>, <<2000, 2, 29>>}
    /\ \E r \in DOMAIN db.cat : r.period = MONTHLY /\ r.date[2] = 2

-----------------------------------------------------------------------------
(* Upload attempts of several clients while the clock advances              *)

\* largest number of uploads without a new row in one behaviour
MaxUploads == 5

\* clock readings at which attempts are made: around the start and the end
\* of the window opened by an attempt at second 0
Times == {0, 59, 60, 61}

\* a server that has just started on a fresh install
InitUpload ==
  /\ db = EmptyDb
  /\ work = db
  /\ writer = 0
  /\ pc = [p \in Procs |-> "idle"]
  /\ ses = [p \in Procs |-> IdleSes]
  /\ nreq = 0
  /\ mode = "seq"
  /\ replayed = TRUE
  /\ last = NoLast
  /\ ret = NoRet
  /\ InitLimiter

\* time passes
Tick ==
  /\ \E t \in Times : t > now /\ now' = t
  /\ UNCHANGED <<_upload_attempts, uploads, db, work, writer, pc, ses, nreq,
                 mode, replayed, last, ret>>

\* POST /transactions/upload/ of a CSV file without a new row (every row is
\* a duplicate, or the file is rejected after the rate limit check): the
\* attempt is rejected with 429 or recorded by _check_rate_limit, and nothing
\* is committed
upload_csv_no_new_rows(ip) ==
  /\ Quiet
  /\ Len(uploads) < MaxUploads
  /\ IpInUse(ip)
  /\ IF RateLimited(_upload_attempts, ip, now)
     THEN /\ uploads' = Append(uploads, Attempt(ip, now, 429))
          /\ UNCHANGED _upload_attempts
     ELSE /\ _upload_attempts' = _check_rate_limit(_upload_attempts, ip, now)
          /\ uploads' = Append(uploads, Attempt(ip, now, 200))
  /\ UNCHANGED <<now, db, work, writer, pc, ses, nreq, mode, replayed, last, ret>>

NextUpload ==
  \/ Tick
  \/ \E ip \in ClientIps : upload_csv_no_new_rows(ip)
  \/ \E p \in Procs : upload_csv(p)

\* uploads only, with and without new rows
SpecUpload == InitUpload /\ [][NextUpload]_vars

\* the attempts of client ip up to attempt n that _check_rate_limit admitted
\* at a time from a to b
AdmittedIn(ip, n, a, b) ==
  {k \in 1..n : /\ uploads[k].ip = ip
                /\ uploads[k].status # 429
                /\ a <= uploads[k].t /\ uploads[k].t <= b}

\* C24: for each client IP at most MAX_UPLOADS_PER_WINDOW attempts are
\* admitted within any window of RATE_LIMIT_WINDOW_SECONDS; an attempt is
\* rejected with 429 exactly when the same IP already has that many admitted
\* attempts in the window that ends at the attempt, so the attempts of other
\* IPs do not count.
C24_UploadRateLimit ==
  /\ \A ip \in ClientIps : \A k \in 1..Len(uploads) :
       Cardinality(AdmittedIn(ip, Len(uploads), uploads[k].t,
                              uploads[k].t + RATE_LIMIT_WINDOW_SECONDS))
         <= MAX_UPLOADS_PER_WINDOW
  /\ \A k \in 1..Len(uploads) :
       uploads[k].status = 429 <=>
         Cardinality(AdmittedIn(uploads[k].ip, k - 1,
                                uploads[k].t - RATE_LIMIT_WINDOW_SECONDS,
                                uploads[k].t))
           >= MAX_UPLOADS_PER_WINDOW

\* a client has three admitted attempts, its fourth one inside the window is
\* rejected while an attempt of another client at the same time is admitted,
\* and it is admitted again once its oldest attempt has left the window
C24_Witness ==
  \E i, j, k \in 1..Len(uploads) :
    /\ i < j /\ i < k
    /\ uploads[i].status = 429
    /\ uploads[j].ip # uploads[i].ip
    /\ uploads[j].t = uploads[i].t
    /\ uploads[j].status = 200
    /\ uploads[k].ip = uploads[i].ip
    /\ uploads[k].status = 200
    /\ Cardinality(AdmittedIn(uploads[i].ip, i, 0, uploads[i].t))
         = MAX_UPLOADS_PER_WINDOW

\* C25: calculate_category_statistics returns exactly one snapshot for every
\* member of ExpenseCategory, tagged EXPENSE, followed by one for every member
\* of IncomeCategory, tagged INCOME, in definition order, so its result has
\* |ExpenseCategory| + |IncomeCategory| entries for every ledger and period.
C25_OneSnapshotPerCategory ==
  ret.fn = "calculate_category_statistics" =>
    /\ Len(ret.categories) = Len(ExpenseCategory) + Len(IncomeCategory)
    /\ \A k \in 1..Len(ExpenseCategory) :
         /\ ret.categories[k].category_name = ExpenseCategory[k]
         /\ ret.categories[k].transaction_type = EXPENSE
    /\ \A k \in 1..Len(IncomeCategory) :
         /\ ret.categories[Len(ExpenseCategory) + k].category_name
              = IncomeCategory[k]
         /\ ret.categories[Len(ExpenseCategory) + k].transaction_type = INCOME

\* a call on a ledger with entries: some categories have transactions in the
\* period and the others have none
C25_Witness ==
  /\ ret.fn = "calculate_category_statistics"
  /\ ret.period = MONTHLY
  /\ Cardinality(DOMAIN db.ledger) = MaxLedger
  /\ \E j, k \in 1..Len(ret.categories) :
       /\ ret.categories[j].transaction_type = EXPENSE
       /\ ret.categories[j].period_transaction_count > 0
       /\ ret.categories[k].transaction_type = INCOME
       /\ ret.categories[k].period_transaction_count > 0
  /\ \E k \in 1..Len(ret.categories) :
       ret.categories[k].period_transaction_count = 0

\* C26: in every committed state there is at most one CategoryStatistics row
\* per (period, date, category_name, transaction_type), under any
\* interleaving of concurrent update_statistics invocations, including for
\* the AllTime category set that every invocation deletes and re-inserts.
C26_UniqueCategoryRows ==
  \A r, q \in DOMAIN db.cat :
    /\ db.cat[r] = 1
    /\ ( /\ r.period = q.period
         /\ r.date = q.date
         /\ r.category_name = q.category_name
         /\ r.transaction_type = q.transaction_type ) => r = q

\* two restore_transaction requests of categorized entries have both entered
\* update_statistics before either had committed a category row, and both
\* have committed
C26_Witness ==
  /\ \A p \in Procs :
       /\ Done(p)
       /\ ses[p].op = "restore_transaction"
       /\ ses[p].pre.cat = EmptyBag
       /\ ses[p].txid \in DOMAIN db.ledger
       /\ \/ db.ledger[ses[p].txid].expense_category # NULL
          \/ db.ledger[ses[p].txid].income_category # NULL
  /\ \E r \in DOMAIN db.cat : r.period = ALL_TIME
  /\ \E r \in DOMAIN db.cat : r.period = MONTHLY

\* the OverallBucket rows of table fin of a granularity
FinOfPeriod(fin, period) == {i \in DOMAIN fin : fin[i].period = period}

\* table fin holds one Monthly row for exactly the months of ledger l, one
\* Yearly row for exactly its years, and one ALL_TIME row
ExactPeriods(fin, l) ==
  LET dates == {l[i].transaction_date : i \in DOMAIN l}
      months == {<<t[1], t[2], LastDayOfMonth(t[1], t[2])>> : t \in dates}
      years == {<<t[1], 12, 31>> : t \in dates}
  IN /\ {fin[i].date : i \in FinOfPeriod(fin, MONTHLY)} = months
     /\ Cardinality(FinOfPeriod(fin, MONTHLY)) = Cardinality(months)
     /\ {fin[i].date : i \in FinOfPeriod(fin, YEARLY)} = years
     /\ Cardinality(FinOfPeriod(fin, YEARLY)) = Cardinality(years)
     /\ Cardinality(FinOfPeriod(fin, ALL_TIME)) = 1

\* C27: when initialize_statistics commits, a Monthly OverallBucket row
\* exists for exactly the (year, month) pairs that have a ledger entry, a
\* Yearly row for exactly the years that have one, plus exactly one AllTime
\* row (also for an empty ledger); no other row that existed before is left.
C27_RebuildExactPeriods ==
  [][\A p \in Procs :
       (pc[p] = "is_build" /\ pc'[p] = "ic_purge")
         => ExactPeriods(db'.fin, db'.ledger)]_vars

\* initialize_statistics has committed on a ledger that had lost its only
\* entry: the Monthly and Yearly rows that update_statistics had left for
\* the emptied month and year are gone and one ALL_TIME row is stored
C27_Witness ==
  \E p \in Procs :
    /\ pc[p] = "ic_purge"
    /\ DOMAIN db.ledger = {}
    /\ \E r \in DOMAIN ses[p].pre.fin : r.period = MONTHLY
    /\ \E r \in DOMAIN ses[p].pre.fin : r.period = YEARLY
    /\ FinOfPeriod(db.fin, MONTHLY) = {}
    /\ Cardinality(FinOfPeriod(db.fin, ALL_TIME)) = 1

\* the entries of ledger l that are not transfers between own accounts
WithoutTransfers(l) ==
  Restrict(l, {i \in DOMAIN l : l[i].transaction_type # TRANSFER})

\* C28: a ledger entry of type TRANSFER is counted in neither the income nor
\* the expense sums or counts of an OverallBucket, for every granularity: the
\* statistics of a ledger are those of the ledger without its transfers.
C28_TransfersNotCounted ==
  ret.fn = "calculate_statistics" =>
    ret.stats = calculate_statistics(WithoutTransfers(db.ledger),
                                     ret.period, ret.target_date)

\* C29: if initialize_statistics or initialize_category_statistics raises
\* after purging its bucket family, it rolls back, so the committed rows of
\* that family are exactly those from before the call, and the exception
\* reaches the caller.
C29_RebuildRollback ==
  \A p \in Procs :
    (pc[p] = "returned" /\ ses[p].op = "initialize_statistics") =>
      /\ ses[p].failed_at = "is_build" =>
           /\ ses[p].result = "error"
           /\ FinBag(db.fin) = ses[p].pre.fin
           /\ writer # p /\ work = db
      /\ ses[p].failed_at = "ic_build" =>
           /\ ses[p].result = "error"
           /\ db.cat = ses[p].pre.cat
           /\ writer # p /\ work = db

\* initialize_statistics has raised after its purge on a database that held
\* OverallBucket rows, and initialize_category_statistics likewise on one
\* that held CategoryBucket rows
C29_Witness ==
  \E p \in Procs :
    /\ pc[p] = "returned"
    /\ ses[p].op = "initialize_statistics"
    /\ ses[p].result = "error"
    /\ \/ /\ ses[p].failed_at = "is_build"
          /\ \E r \in DOMAIN ses[p].pre.fin : r.period = MONTHLY
          /\ \E i \in DOMAIN db.fin : db.fin[i].period = MONTHLY
       \/ /\ ses[p].failed_at = "ic_build"
          /\ ses[p].pre.cat # EmptyBag
          /\ db.cat # EmptyBag

\* update_statistics of handler p has selected (with_for_update) or created
\* its Monthly, Yearly and ALL_TIME rows
AllTaken(p) ==
  /\ ses[p].monthly_stats # NoObj
  /\ ses[p].yearly_stats # NoObj
  /\ ses[p].all_time_stats # NoObj

\* session p holds a lock on the statistics rows it has taken.  SQLite has
\* no row lock: the rows are protected only while p holds the write lock of
\* the file, which it takes when it creates a row
RowsLocked(p) == AllTaken(p) /\ writer = p

\* C30: in update_statistics every ledger read that recomputes a bucket (the
\* calculate_statistics and calculate_category_statistics calls) happens
\* after the invocation has locked, or created, its Monthly, Yearly and
\* AllTime OverallBucket rows, and each value is the full recomputation over
\* the ledger the database holds at the time of that read.
C30_ReadsUnderLocks ==
  [][\A p \in Procs :
       /\ (pc[p] = "us_calc_monthly" /\ pc'[p] = "us_calc_yearly") =>
            /\ RowsLocked(p)
            /\ ses'[p].monthly_data =
                 calculate_statistics(View(p).ledger, MONTHLY,
                                      ses[p].transaction_date)
       /\ (pc[p] = "us_calc_yearly" /\ pc'[p] = "us_calc_all_time") =>
            /\ RowsLocked(p)
            /\ ses'[p].yearly_data =
                 calculate_statistics(View(p).ledger, YEARLY,
                                      ses[p].transaction_date)
       /\ (pc[p] = "us_calc_all_time" /\ pc'[p] = "uc_delete") =>
            /\ RowsLocked(p)
            /\ ses'[p].all_time_data =
                 calculate_statistics(View(p).ledger, ALL_TIME, NoDate)
       /\ (pc[p] = "uc_write" /\ pc'[p] = "us_commit") =>
            /\ RowsLocked(p)
            /\ work'.cat = write_categories(work.cat, View(p).ledger,
                                            ses[p].transaction_date)]_vars

====
